---------------------------- MODULE Spec2Model ----------------------------
(***************************************************************************)
(* Medium Articles Chatbot: the HTTP endpoint (simple_api.py), the tools   *)
(* over the article catalog and the tech index (app/tools.py) and the      *)
(* three mode handlers (app/workflows.py).                                 *)
(*                                                                         *)
(* Texts are TLA+ strings; Python's `in`, lower(), slicing and string      *)
(* comparison are computed character by character.  A text the code builds *)
(* with "\n".join(output) is kept as the sequence of the joined pieces.    *)
(***************************************************************************)
EXTENDS Naturals, Sequences, FiniteSets, TLC

VARIABLES
    articles_manifest,  \* tools.py:22, the loaded article catalog
    tech_index_data,    \* tools.py:22, the loaded tech index, in key order
    index,              \* tools.py:25, the lazily built client ("None" until built)
    op,                 \* the operation performed last, with its arguments
    calls,              \* the calls that operation made, in order
    result,             \* what it returned, or the exception it raised
    served              \* number of operations performed so far

vars == <<articles_manifest, tech_index_data, index, op, calls, result, served>>

\* ------------------------------------------------------------------ bounds

MaxServed == 3

MaxArticles == 12

MaxPattern == 2

MaxTechs == 12

MaxList == 3

MaxResults == 2

NumWords == 9

\* ----------------------------------------------------------- Python strings

\* Python slice s[a-1:b-1+1] with 1-based inclusive positions, clipped to s.
Slice(s, a, b) ==
    IF a > b \/ a > Len(s) THEN "" ELSE SubSeq(s, a, IF b > Len(s) THEN Len(s) ELSE b)

\* s[:n]
Prefix(s, n) == Slice(s, 1, n)

CharAt(s, i) == SubSeq(s, i, i)

\* The characters the model's texts use, in code-point order.
Alphabet == " '-.0123456789:ABCDEFGHIJKLMNOPQRSTUVWXYZ_abcdefghijklmnopqrstuvwxyz"

UpperCase == "ABCDEFGHIJKLMNOPQRSTUVWXYZ"

LowerCase == "abcdefghijklmnopqrstuvwxyz"

Ord(c) == CHOOSE i \in 1..Len(Alphabet) : CharAt(Alphabet, i) = c

LowerChar(c) ==
    IF \E i \in 1..Len(UpperCase) : CharAt(UpperCase, i) = c
    THEN CharAt(LowerCase, CHOOSE i \in 1..Len(UpperCase) : CharAt(UpperCase, i) = c)
    ELSE c

\* str.lower()
RECURSIVE lower(_)
lower(s) == IF s = "" THEN "" ELSE LowerChar(CharAt(s, 1)) \o lower(Slice(s, 2, Len(s)))

\* Python's `sub in s` on strings.
Contains(sub, s) ==
    \E i \in 1..(Len(s) + 1) :
        /\ i + Len(sub) - 1 <= Len(s)
        /\ Slice(s, i, i + Len(sub) - 1) = sub

\* Python's a < b on strings: the first differing character decides, and a
\* proper prefix is smaller.
StrLess(a, b) ==
    \E i \in 1..(Len(b)) :
        /\ i <= Len(a) + 1
        /\ Prefix(a, i - 1) = Prefix(b, i - 1)
        /\ (i = Len(a) + 1 \/ Ord(CharAt(a, i)) < Ord(CharAt(b, i)))


\* ------------------------------------------------------- Python containers

Min(a, b) == IF a < b THEN a ELSE b

\* s[:n] on a list
First(s, n) == SubSeq(s, 1, Min(n, Len(s)))

\* dict.get(key, default)
Get(d, k, default) == IF k \in DOMAIN d THEN d[k] ELSE default

\* A JSON value that may be null: None, or Val(v).
None == [none |-> TRUE]

Val(v) == [none |-> FALSE, v |-> v]

\* Python truth of an optional string / integer.
TruthyStr(x) == ~x.none /\ x.v # ""

TruthyInt(x) == ~x.none /\ x.v # 0

Digits == "0123456789"

\* str(n), n a natural number
RECURSIVE ToStr(_)
ToStr(n) == IF n < 10 THEN CharAt(Digits, n + 1) ELSE ToStr(n \div 10) \o CharAt(Digits, (n % 10) + 1)

\* str(x) of an optional string, as an f-string renders it
FormatStr(x) == IF x.none THEN "None" ELSE x.v

\* sep.join(parts)
RECURSIVE JoinWith(_, _)
JoinWith(sep, parts) ==
    IF parts = <<>> THEN ""
    ELSE IF Len(parts) = 1 THEN parts[1]
    ELSE parts[1] \o sep \o JoinWith(sep, Tail(parts))

\* The lists of a list of lists, one after the other: what a loop leaves in
\* output when each round appends or extends.
RECURSIVE Concat(_)
Concat(lists) == IF lists = <<>> THEN <<>> ELSE Head(lists) \o Concat(Tail(lists))

\* What a function hands its caller: a text (with the list it was joined
\* from), or an exception.
Text(output) == [kind |-> "text", text |-> JoinWith("\n", output), output |-> output]

Raise(exc) == [kind |-> "raise", exc |-> exc]

\* ----------------------------------------------------------------- tools.py
\* Bullets and pictographs of the messages are written in ASCII.

\* any(x.lower() in t.lower() for t in items)
AnyContains(x, items) == \E i \in 1..Len(items) : Contains(lower(x), lower(items[i]))

\* The loop of filter_by_metadata with the tag filter left out.
filter_matches_NoTag(tech, year, tag) ==
    SelectSeq(articles_manifest, LAMBDA article :
        /\ TruthyStr(tech) => AnyContains(tech.v, Get(article, "tech_stack", <<>>))
        /\ TruthyInt(year) => Get(article, "year", None) = year)

\* The loop of filter_by_metadata: the articles that pass every filter that
\* is truthy.
filter_matches(tech, year, tag) ==
    SelectSeq(articles_manifest, LAMBDA article :
        /\ TruthyStr(tech) => AnyContains(tech.v, Get(article, "tech_stack", <<>>))
        /\ TruthyInt(year) => Get(article, "year", None) = year
        /\ TruthyStr(tag) => AnyContains(tag.v, Get(article, "tags", <<>>)))

filter_lines(article, tech) ==
    <<"* " \o article.title,
      "  Date: " \o FormatStr(Get(article, "date", Val("Unknown")))>>
    \o (IF TruthyStr(tech)
        THEN <<"  Tech: " \o JoinWith(", ", Get(article, "tech_stack", <<>>))>>
        ELSE <<>>)
    \o <<"">>

DisplayLimit == 10

filter_by_metadata(tech, year, tag) ==
    LET matches == filter_matches(tech, year, tag) IN
    IF matches = <<>>
    THEN Text(<<"No articles found matching the criteria.">>)
    ELSE Text(<<"Found " \o ToStr(Len(matches)) \o " matching articles:\n">>
              \o Concat([i \in 1..Min(DisplayLimit, Len(matches)) |->
                            filter_lines(matches[i], tech)])
              \o (IF Len(matches) > DisplayLimit
                  THEN <<"... and " \o ToStr(Len(matches) - DisplayLimit) \o " more">>
                  ELSE <<>>))


\* The extend loop of analyze_tech_stack: the article lists of the keys that
\* contain the argument, case-insensitively, in key order.
matching_articles(technology) ==
    Concat([i \in 1..Len(tech_index_data) |->
               IF Contains(lower(technology), lower(tech_index_data[i].tech))
               THEN tech_index_data[i].articles
               ELSE <<>>])

\* key=lambda x: x.get('date') or ''
date_key(x) == LET d == Get(x, "date", None) IN IF TruthyStr(d) THEN d.v ELSE ""

\* x goes behind every element whose key is not smaller than its own.
RECURSIVE insert_desc(_, _)
insert_desc(x, s) ==
    IF s = <<>> THEN <<x>>
    ELSE IF StrLess(date_key(Head(s)), date_key(x)) THEN <<x>> \o s
    ELSE <<Head(s)>> \o insert_desc(x, Tail(s))

\* The list left as it was aggregated.
sort_by_date_Unsorted(s) == s

\* list.sort(key=..., reverse=True): descending, equal keys keep their order.
RECURSIVE sort_by_date(_)
sort_by_date(s) ==
    IF s = <<>> THEN <<>>
    ELSE insert_desc(s[Len(s)], sort_by_date(SubSeq(s, 1, Len(s) - 1)))

\* The first date of the list taken for the smallest.
min_str_First(dates) == dates[1]

\* min(dates) and max(dates) of a non-empty list of strings
min_str(dates) ==
    CHOOSE d \in {dates[i] : i \in 1..Len(dates)} :
        \A j \in 1..Len(dates) : ~StrLess(dates[j], d)

max_str(dates) ==
    CHOOSE d \in {dates[i] : i \in 1..Len(dates)} :
        \A j \in 1..Len(dates) : ~StrLess(d, dates[j])

DateWidth == 10

RecentLimit == 5

\* [a['date'] for a in matching_articles if a.get('date')]
dated(articles) ==
    Concat([i \in 1..Len(articles) |->
               IF TruthyStr(Get(articles[i], "date", None)) THEN <<articles[i].date.v>> ELSE <<>>])

analyze_lines(article) ==
    <<"* " \o article.title,
      "  Date: " \o Prefix(Get(article, "date", Val("Unknown")).v, DateWidth),
      "">>

analyze_tech_stack(technology) ==
    LET aggregated == matching_articles(technology)
        sorted == sort_by_date(aggregated)
        dates == dated(sorted)
        listed == First(sorted, RecentLimit)
    IN  IF aggregated = <<>>
        THEN Text(<<"No articles found mentioning '" \o technology \o "'.">>)
        ELSE IF \E i \in 1..Len(listed) : Get(listed[i], "date", Val("Unknown")).none
        THEN Raise("TypeError")  \* None[:10]
        ELSE Text(<<"Analysis for '" \o technology \o "':\n",
                    "Total articles: " \o ToStr(Len(sorted))>>
                  \o (IF dates # <<>>
                      THEN <<"First mention: " \o Prefix(min_str(dates), DateWidth),
                             "Latest mention: " \o Prefix(max_str(dates), DateWidth)>>
                      ELSE <<>>)
                  \o <<"\nArticles mentioning '" \o technology \o "':\n">>
                  \o Concat([i \in 1..Len(listed) |-> analyze_lines(listed[i])])
                  \o (IF Len(sorted) > RecentLimit
                      THEN <<"... and " \o ToStr(Len(sorted) - RecentLimit) \o " more articles">>
                      ELSE <<>>))

\* The list object analyze_tech_stack sorts, had it been bound to the list of
\* the first matching key and extended with the others.
matching_list_FirstKey(data, technology) ==
    LET hits == {i \in 1..Len(data) : Contains(lower(technology), lower(data[i].tech))}
    IN  [owner |-> IF hits = {} THEN 0 ELSE CHOOSE i \in hits : \A j \in hits : i <= j,
         items |-> Concat([i \in 1..Len(data) |->
                              IF i \in hits THEN data[i].articles ELSE <<>>])]

\* The list object analyze_tech_stack sorts: matching_articles = [] is a list
\* of its own (owner 0: none of the lists of the index), and extend() copies
\* the elements of every matching key's list into it.
matching_list(data, technology) ==
    [owner |-> 0,
     items |-> Concat([i \in 1..Len(data) |->
                          IF Contains(lower(technology), lower(data[i].tech))
                          THEN data[i].articles
                          ELSE <<>>])]

\* The tech index after analyze_tech_stack(technology): list.sort() works in
\* place on the list object it is called on, and is reached only when that
\* list is not empty.
after_sort(data, technology) ==
    LET sorted == matching_list(data, technology)
    IN  IF sorted.owner = 0 \/ sorted.items = <<>>
        THEN data
        ELSE [data EXCEPT ![sorted.owner].articles = sort_by_date(sorted.items)]

\* {tech: len(articles)} in key order
tech_counts ==
    [i \in 1..Len(tech_index_data) |->
        [tech |-> tech_index_data[i].tech, count |-> Len(tech_index_data[i].articles)]]

\* x goes behind every element whose count is not larger than its own.
RECURSIVE insert_by_count(_, _)
insert_by_count(x, s) ==
    IF s = <<>> THEN <<x>>
    ELSE IF x.count < Head(s).count THEN <<x>> \o s
    ELSE <<Head(s)>> \o insert_by_count(x, Tail(s))

\* sorted(items, key=lambda x: x[1]): ascending, equal counts keep their order.
RECURSIVE sorted_by_count(_)
sorted_by_count(s) ==
    IF s = <<>> THEN <<>>
    ELSE insert_by_count(s[Len(s)], sorted_by_count(SubSeq(s, 1, Len(s) - 1)))

\* The counts in key order, not sorted.
sorted_tech_Unsorted == tech_counts

sorted_tech == sorted_by_count(tech_counts)

GapScan == 10

LimitedCoverage == 3

recent_cutoff == 2023

\* The years counted in year_counts: those of the articles whose year is truthy.
counted_years ==
    {articles_manifest[i].year.v :
        i \in {j \in 1..Len(articles_manifest) :
                 TruthyInt(Get(articles_manifest[j], "year", None))}}

year_count(y) ==
    Cardinality({i \in 1..Len(articles_manifest) :
                    Get(articles_manifest[i], "year", None) = Val(y)})

\* sorted(year_counts.keys())
RECURSIVE sorted_years(_)
sorted_years(ys) ==
    IF ys = {} THEN <<>>
    ELSE LET m == CHOOSE y \in ys : \A z \in ys : y <= z
         IN  <<m>> \o sorted_years(ys \ {m})

\* [a for a in articles_manifest if a.get('year', 0) >= recent_cutoff]
recent_articles ==
    SelectSeq(articles_manifest, LAMBDA a : Get(a, "year", Val(0)).v >= recent_cutoff)

gap_lines(entry) ==
    IF entry.count < LimitedCoverage
    THEN <<"  * " \o entry.tech \o ": " \o ToStr(entry.count) \o " article(s)">>
    ELSE <<>>

find_content_gaps ==
    LET scanned == First(sorted_tech, GapScan)
        years == sorted_years(counted_years)
    IN
    IF \E i \in 1..Len(articles_manifest) : Get(articles_manifest[i], "year", Val(0)).none
    THEN Raise("TypeError")  \* None >= 2023
    ELSE Text(<<"Content Gap Analysis\n",
                "Total articles: " \o ToStr(Len(articles_manifest)),
                "Articles since " \o ToStr(recent_cutoff) \o ": "
                    \o ToStr(Len(recent_articles)) \o "\n",
                "Technologies with limited coverage (< 3 articles):">>
              \o Concat([i \in 1..Len(scanned) |-> gap_lines(scanned[i])])
              \o <<"\nPublishing frequency by year:">>
              \o Concat([i \in 1..Len(years) |->
                            <<"  * " \o ToStr(years[i]) \o ": "
                              \o ToStr(year_count(years[i])) \o " articles">>])
              \o <<"\nRecommendations:",
                   "  * Consider deep dives on underserved technologies",
                   "  * Update older popular articles",
                   "  * Combine technologies you know well but haven't written about together">>)

ContentLimit == 2000

DisambiguationLimit == 5

\* The titles compared as they are written, without lower().
title_matches_CaseSensitive(article_title) ==
    SelectSeq(articles_manifest, LAMBDA a : Contains(article_title, a.title))

\* [a for a in articles_manifest if article_title.lower() in a['title'].lower()]
title_matches(article_title) ==
    SelectSeq(articles_manifest, LAMBDA a : Contains(lower(article_title), lower(a.title)))

get_full_article(article_title) ==
    LET matches == title_matches(article_title) IN
    IF matches = <<>>
    THEN Text(<<"No article found with title containing '" \o article_title \o "'">>)
    ELSE IF Len(matches) > 1
    THEN Text(<<"Multiple matches found. Please be more specific:\n"
                \o JoinWith("\n", [i \in 1..Min(DisambiguationLimit, Len(matches)) |->
                                      "  * " \o matches[i].title])>>)
    ELSE LET article == matches[1]
             content == Get(article, "content", "")
         IN  Text(<<"Title: " \o article.title,
                    "Date: " \o FormatStr(Get(article, "date", Val("Unknown"))),
                    "Tags: " \o JoinWith(", ", Get(article, "tags", <<>>)),
                    "Tech: " \o JoinWith(", ", Get(article, "tech_stack", <<>>)),
                    "Word count: " \o ToStr(Get(article, "word_count", 0)),
                    "\n--- Content ---\n",
                    Prefix(content, ContentLimit)>>
                  \o (IF Len(content) > ContentLimit
                      THEN <<"\n... (content truncated)">>
                      ELSE <<>>))

\* get_index(): the client is built on the first use and kept; a failed
\* construction leaves the global None.
get_index(service) ==
    IF index = "None" THEN (IF service.build = "ok" THEN "client" ELSE "None") ELSE index

\* The try block of search_articles raises when the client cannot be built
\* or the retrieval fails.
retrieve_raises(service) ==
    (index = "None" /\ service.build # "ok") \/ service.retrieve # "ok"

\* f"{score:.2f}" of a score given in hundredths
format_score(h) ==
    ToStr(h \div 100) \o "." \o CharAt(Digits, ((h \div 10) % 10) + 1) \o CharAt(Digits, (h % 10) + 1)

ExcerptLimit == 300

\* The four lines of one result, and the separator.
result_lines(i, r) ==
    <<"Result " \o ToStr(i) \o ":",
      "Title: " \o Get(IF r.metadata.none THEN <<>> ELSE r.metadata.v, "title", "Unknown"),
      "Relevance: " \o format_score(r.score.v),
      "Excerpt: " \o Prefix(r.text.v, ExcerptLimit) \o "...",
      "---">>

RECURSIVE format_results(_, _)
format_results(i, results) ==
    IF i > Len(results) THEN <<>>
    ELSE result_lines(i, results[i]) \o format_results(i + 1, results)

search_articles(query, top_k, service) ==
    IF retrieve_raises(service)
    THEN Text(<<"LlamaCloud search unavailable (" \o service.error
                \o "). Using local article metadata search instead.">>)
    ELSE IF service.results = <<>>
    THEN Text(<<"No relevant articles found.">>)
    ELSE IF \E i \in 1..Len(service.results) :
                service.results[i].score.none \/ service.results[i].text.none
    THEN Raise("TypeError")  \* format(None, ".2f"), None[:300]
    ELSE Text(format_results(1, service.results))



\* ---------------------------------------------------------------- workflows.py

UpperChar(c) ==
    IF \E i \in 1..Len(LowerCase) : CharAt(LowerCase, i) = c
    THEN CharAt(UpperCase, CHOOSE i \in 1..Len(LowerCase) : CharAt(LowerCase, i) = c)
    ELSE c

\* str.title() of a single word
title(s) == IF s = "" THEN "" ELSE UpperChar(CharAt(s, 1)) \o lower(Slice(s, 2, Len(s)))

\* any(word in query.lower() for word in words)
AnyWordIn(words, query) ==
    LET lowered == lower(query) IN \E i \in 1..Len(words) : Contains(words[i], lowered)

\* What a handler has done so far: the pieces collected, the calls made and
\* whether a call raised.
Progress(parts, called, raised) == [parts |-> parts, calls |-> called, raised |-> raised]

CallAnalyze(tech) == [fn |-> "analyze_tech_stack", technology |-> tech]

\* for tech in techs: the analysis, kept under the heading of that tech
\* unless it holds "No articles found"; an exception ends the loop and the
\* handler.
RECURSIVE analyze_each(_, _, _)
analyze_each(techs, headings, acc) ==
    IF techs = <<>> \/ acc.raised THEN acc
    ELSE LET a == analyze_tech_stack(Head(techs))
             called == Append(acc.calls, CallAnalyze(Head(techs)))
         IN  IF a.kind = "raise" THEN Progress(acc.parts, called, TRUE)
             ELSE analyze_each(Tail(techs), Tail(headings),
                    Progress(acc.parts \o (IF ~Contains("No articles found", a.text)
                                           THEN <<Head(headings), a.text>>
                                           ELSE <<>>),
                             called, FALSE))

\* One call of a tool: when it returns, the pieces made of its text are
\* appended; when it raises, the handler ends there.
call_tool(acc, call, returned, pieces) ==
    IF acc.raised THEN acc
    ELSE IF returned.kind = "raise" THEN Progress(acc.parts, Append(acc.calls, call), TRUE)
    ELSE Progress(acc.parts \o pieces, Append(acc.calls, call), FALSE)

CallSearch(query, top_k) == [fn |-> "search_articles", query |-> query, top_k |-> top_k]

CallGaps == [fn |-> "find_content_gaps"]

CallFilter(year) == [fn |-> "filter_by_metadata", year |-> year]

\* What the step hands back: StopEvent(result="\n".join(result_parts)), or the
\* exception of the call that raised.
Stop(branch, acc, footer) ==
    [branch |-> branch,
     calls |-> acc.calls,
     result |-> IF acc.raised THEN Raise("TypeError") ELSE Text(acc.parts \o footer)]

tech_keywords == <<"python", "ai", "claude", "openai", "llamaindex", "react", "docker">>

TechLimit == 2

DiscoveryTopK == 3

DiscoveryNote ==
    "\n**Note:** I provide article summaries and teasers to help you discover interesting content. For full articles, visit the original Medium posts."

DiscoveryMenu ==
    <<"I couldn't find specific matches for your query. Here are some ways I can help:",
      "* Ask about specific technologies (Python, AI, LlamaIndex, etc.)",
      "* Request articles from specific years",
      "* Search for topics like 'patent filing', 'AI workflows', or 'productivity'">>

\* [tech for tech in tech_keywords if tech.lower() in query.lower()]
mentioned_tech(query) ==
    LET lowered == lower(query)
    IN  SelectSeq(tech_keywords, LAMBDA tech : Contains(lower(tech), lowered))

\* DiscoveryWorkflow.discover_articles
discover_articles(query, service) ==
    IF query = ""
    THEN [branch |-> "empty", calls |-> <<>>,
          result |-> Text(<<"Please provide a question about the articles.">>)]
    ELSE LET search_results == search_articles(query, DiscoveryTopK, service)
             searched ==
                 call_tool(Progress(<<>>, <<>>, FALSE), CallSearch(query, DiscoveryTopK),
                           search_results,
                           IF ~Contains("No relevant articles found", search_results.text)
                           THEN <<"**Search Results:**", search_results.text>>
                           ELSE <<>>)
             techs == First(mentioned_tech(query), TechLimit)
             analyzed ==
                 analyze_each(techs,
                              [i \in 1..Len(techs) |-> "\n**" \o title(techs[i]) \o " Coverage:**"],
                              searched)
             filled ==
                 IF ~analyzed.raised /\ analyzed.parts = <<>>
                 THEN Progress(DiscoveryMenu, analyzed.calls, FALSE)
                 ELSE analyzed
         IN  Stop("discover", filled, <<DiscoveryNote>>)

TechnicalProfile ==
    "\n**Technical Profile:** Demonstrated expertise in AI technologies, automation tools, patent filing systems, and productivity workflows. Active exploration of cutting-edge AI platforms and their practical applications."

ExplorerHeader == "**Technical Expertise Analysis**\n"

ExplorerGeneric == <<"technology", "tech", "stack", "expertise">>

ExplorerNamed == <<"python", "ai", "claude", "openai", "llamaindex">>

ExplorerTemporal == <<"evolution", "timeline", "history", "over time">>

other_techs == <<"Python", "LlamaIndex", "Claude", "OpenAI">>

TimelineYears == <<2023, 2024, 2025>>

TimelineLimit == 500

ExplorerTopK == 3

\* for year in [2023, 2024, 2025]: the year's articles, cut to 500 characters
RECURSIVE timeline(_, _)
timeline(years, acc) ==
    IF years = <<>> THEN acc
    ELSE LET year_articles == filter_by_metadata(None, Val(Head(years)), None).text
         IN  timeline(Tail(years),
                Progress(acc.parts \o
                            (IF ~Contains("No articles found", year_articles)
                             THEN <<"\n**" \o ToStr(Head(years)) \o ":**",
                                    IF Len(year_articles) > TimelineLimit
                                    THEN Prefix(year_articles, TimelineLimit) \o "..."
                                    ELSE year_articles>>
                             ELSE <<>>),
                         Append(acc.calls, CallFilter(Head(years))), FALSE))

\* The if/elif chain of explore_tech: the arm a non-empty query takes.
explorer_branch(query) ==
    IF AnyWordIn(ExplorerGeneric, query) THEN "generic"
    ELSE IF AnyWordIn(ExplorerNamed, query) THEN "named"
    ELSE IF AnyWordIn(ExplorerTemporal, query) THEN "temporal"
    ELSE "search"

\* TechExplorerWorkflow.explore_tech
explore_tech(query, service) ==
    LET start == Progress(<<ExplorerHeader>>, <<>>, FALSE)
        branch == explorer_branch(query)
        tech_summary == analyze_tech_stack("AI")
        search_results == search_articles(query, ExplorerTopK, service)
    IN
    IF query = ""
    THEN [branch |-> "empty", calls |-> <<>>,
          result |-> Text(<<"Please ask about specific technologies or technical expertise.">>)]
    ELSE IF branch = "generic"
    THEN Stop("generic",
              analyze_each(other_techs,
                  [i \in 1..Len(other_techs) |-> "\n**" \o other_techs[i] \o " Expertise:**"],
                  call_tool(start, CallAnalyze("AI"), tech_summary,
                            <<"**Primary Focus - AI Technologies:**", tech_summary.text>>)),
              <<TechnicalProfile>>)
    ELSE IF branch = "named"
    THEN LET lowered == lower(query)
             tech == SelectSeq(ExplorerNamed, LAMBDA t : Contains(t, lowered))[1]
             tech_analysis == analyze_tech_stack(tech)
         IN  Stop("named",
                  call_tool(start, CallAnalyze(tech), tech_analysis,
                            <<"**" \o title(tech) \o " Expertise:**", tech_analysis.text>>),
                  <<TechnicalProfile>>)
    ELSE IF branch = "temporal"
    THEN Stop("temporal",
              timeline(TimelineYears,
                       Progress(start.parts \o <<"**Technology Evolution Timeline:**">>,
                                <<>>, FALSE)),
              <<TechnicalProfile>>)
    ELSE Stop("search",
              call_tool(start, CallSearch(query, ExplorerTopK), search_results,
                        <<"**Relevant Technical Content:**", search_results.text>>),
              <<TechnicalProfile>>)

PrivateMode ==
    "\n**Private Mode:** Full analytics access with detailed content insights and strategic recommendations."

AnalyticsHeader == "**Content Analytics Dashboard**\n"

AnalyticsGap == <<"gap", "opportunity", "missing", "underserved">>

AnalyticsArticle == <<"article", "content", "full", "detail">>

AnalyticsPattern == <<"pattern", "performance", "trend", "frequency">>

AnalyticsFocus == <<"technology", "tech", "focus", "expertise">>

AnalyticsStrategy == <<"strategy", "next", "recommend", "suggest", "improve">>

focus_techs == <<"AI", "Claude", "Python", "LlamaIndex", "OpenAI">>

ArticleTopK == 5

OverviewTopK == 3

FrequencyLimit == 1000

StrategyInsights ==
    <<"\n**Additional Strategic Insights:**",
      "* Consider creating series on AI workflow automation",
      "* Expand Python + AI integration tutorials",
      "* Document more real-world AI implementation case studies",
      "* Create beginner-friendly guides for identified technologies">>

\* The if/elif chain of analyze_content, the strategy keywords tested first.
analytics_branch_StrategyFirst(query) ==
    IF AnyWordIn(AnalyticsStrategy, query) THEN "strategy"
    ELSE IF AnyWordIn(AnalyticsGap, query) THEN "gap"
    ELSE IF AnyWordIn(AnalyticsArticle, query) THEN "article"
    ELSE IF AnyWordIn(AnalyticsPattern, query) THEN "pattern"
    ELSE IF AnyWordIn(AnalyticsFocus, query) THEN "focus"
    ELSE "overview"

\* The if/elif chain of analyze_content: the arm a non-empty query takes.
analytics_branch(query) ==
    IF AnyWordIn(AnalyticsGap, query) THEN "gap"
    ELSE IF AnyWordIn(AnalyticsArticle, query) THEN "article"
    ELSE IF AnyWordIn(AnalyticsPattern, query) THEN "pattern"
    ELSE IF AnyWordIn(AnalyticsFocus, query) THEN "focus"
    ELSE IF AnyWordIn(AnalyticsStrategy, query) THEN "strategy"
    ELSE "overview"

\* AnalyticsWorkflow.analyze_content
analyze_content(query, service) ==
    LET start == Progress(<<AnalyticsHeader>>, <<>>, FALSE)
        branch == analytics_branch(query)
        gaps == find_content_gaps
        frequency_analysis == filter_by_metadata(None, None, None)
    IN
    IF query = ""
    THEN [branch |-> "empty", calls |-> <<>>,
          result |-> Text(<<"Please specify what type of analysis you'd like: content gaps, writing patterns, article performance, or strategy recommendations.">>)]
    ELSE IF branch = "gap"
    THEN Stop("gap",
              call_tool(start, CallGaps, gaps, <<"**Content Gap Analysis:**", gaps.text>>),
              <<PrivateMode>>)
    ELSE IF branch = "article"
    THEN LET search_results == search_articles(query, ArticleTopK, service)
         IN
         Stop("article",
              call_tool(start, CallSearch(query, ArticleTopK), search_results,
                        <<"**Article Search Results:**", search_results.text,
                          "\n**Tip:** To get full article content, ask for a specific article title.">>),
              <<PrivateMode>>)
    ELSE IF branch = "pattern"
    THEN Stop("pattern",
              call_tool(
                  call_tool(Progress(start.parts \o <<"**Writing Patterns Analysis:**">>,
                                     <<>>, FALSE),
                            [fn |-> "filter_by_metadata"],
                            frequency_analysis,
                            <<Prefix(frequency_analysis.text, FrequencyLimit)>>),
                  CallGaps, gaps,
                  <<"\n**Strategic Recommendations:**", gaps.text>>),
              <<PrivateMode>>)
    ELSE IF branch = "focus"
    THEN Stop("focus",
              analyze_each(focus_techs,
                           [i \in 1..Len(focus_techs) |-> "\n**" \o focus_techs[i] \o ":**"],
                           Progress(start.parts \o <<"**Technology Focus Analysis:**">>,
                                    <<>>, FALSE)),
              <<PrivateMode>>)
    ELSE IF branch = "strategy"
    THEN Stop("strategy",
              call_tool(start, CallGaps, gaps,
                        <<"**Content Strategy Recommendations:**", gaps.text>>
                        \o StrategyInsights),
              <<PrivateMode>>)
    ELSE LET search_results == search_articles(query, OverviewTopK, service)
         IN
         Stop("overview",
              call_tool(
                  call_tool(start, CallGaps, gaps,
                            <<"**Comprehensive Content Overview:**", gaps.text>>),
                  CallSearch(query, OverviewTopK), search_results,
                  <<"\n**Query-Specific Results:**", search_results.text>>),
              <<PrivateMode>>)

\* -------------------------------------------------- the loaded data: inputs

\* All sequences over S of length 1..k
Patterns(S, k) == UNION {[1..j -> S] : j \in 1..k}

\* The pattern repeated up to length n
Cyclic(pattern, n) == [i \in 1..n |-> pattern[((i - 1) % Len(pattern)) + 1]]

\* Article records of articles_manifest.json: title always; date and year
\* present, null or absent; tags and tech_stack present or absent.
ArticleShapes ==
    <<[title |-> "Python Tips", date |-> Val("2024-01-15"), year |-> Val(2024),
       tags |-> <<"Programming", "AI">>, tech_stack |-> <<"Python", "Docker">>,
       word_count |-> 1200, content |-> "Use venv."],
      [title |-> "React Hooks", year |-> Val(2023),
       tags |-> <<"Frontend">>, tech_stack |-> <<"React">>],
      [title |-> "Notes", date |-> None, year |-> None],
      [title |-> "OpenAI agents", date |-> Val("2025-03-01T10:00:00Z"), year |-> Val(2025),
       tags |-> <<"ai">>, tech_stack |-> <<"OpenAI", "python">>, content |-> ""]>>

Numbered(shape, i) == [shape EXCEPT !.title = @ \o " " \o ToStr(i)]

Catalog(pattern, n) ==
    LET kinds == Cyclic(pattern, n)
    IN  [i \in 1..n |-> Numbered(ArticleShapes[kinds[i]], i)]

Catalogs(maxn) ==
    {Catalog(p, n) : p \in Patterns(1..Len(ArticleShapes), MaxPattern), n \in 0..maxn}

\* Article summaries of tech_index.json: title, and a date that is a day, a
\* timestamp, empty, null or absent.
SummaryShapes ==
    <<[title |-> "S", date |-> Val("2024-12-31")],
      [title |-> "S", date |-> Val("2025-01-01T08:30:00Z")],
      [title |-> "S"],
      [title |-> "S", date |-> None],
      [title |-> "S", date |-> Val("2024-12-31T23:59:59Z")]>>

Summaries(kinds, from) ==
    [i \in 1..Len(kinds) |->
        [SummaryShapes[kinds[i]] EXCEPT !.title = @ \o ToStr(from + i)]]

SummaryLists(k) == {<<>>} \cup Patterns(1..Len(SummaryShapes), k)

\* A tech index of three keys, two of which contain "ai".
DatedIndexes ==
    {<<[tech |-> "AI", articles |-> Summaries(a, 0)],
       [tech |-> "Python", articles |-> Summaries(<<2, 1>>, 20)],
       [tech |-> "OpenAI", articles |-> Summaries(b, 10)]>> :
        a \in SummaryLists(MaxList), b \in {<<>>, <<1>>, <<2, 3, 1>>}}

\* A tech index of n keys whose article lists have the lengths the pattern gives.
CountChoices == {1, 2, 3, 5}

CountedIndex(pattern, n) ==
    LET counts == Cyclic(pattern, n)
    IN  [i \in 1..n |->
            [tech |-> "Tech" \o ToStr(i),
             articles |-> Summaries([j \in 1..counts[i] |-> 1], 0)]]

CountedIndexes ==
    {CountedIndex(p, n) : p \in Patterns(CountChoices, MaxPattern), n \in 0..MaxTechs}

\* Tech indexes with an undated and with a null-dated summary, and the empty one.
ToolIndexes ==
    {<<>>}
    \cup {<<[tech |-> "AI", articles |-> Summaries(a, 0)],
            [tech |-> "Python", articles |-> Summaries(<<2, 1>>, 20)],
            [tech |-> "OpenAI", articles |-> Summaries(<<2, 3>>, 10)]>> :
             a \in {<<1, 3>>, <<4>>}}

NoOp == [fn |-> "none"]

\* The state once app.tools is imported: the two files loaded, no client yet.
Loaded(catalogs, indexes) ==
    /\ articles_manifest \in catalogs
    /\ tech_index_data \in indexes
    /\ index = "None"
    /\ op = NoOp
    /\ calls = <<>>
    /\ result = [kind |-> "none"]
    /\ served = 0

\* ------------------------------------------------------- calls of the tools
\* The four metadata functions are pure: each behaviour applies one of them
\* once to the loaded data.

TechArgs == {None, Val(""), Val("PYTHON"), Val("ai")}

YearArgs == {None, Val(0), Val(2023), Val(2024)}

TagArgs == {None, Val("AI"), Val("front")}

FilterByMetadata ==
    \E tech \in TechArgs, year \in YearArgs, tag \in TagArgs :
        /\ op = NoOp
        /\ op' = [fn |-> "filter_by_metadata", tech |-> tech, year |-> year, tag |-> tag]
        /\ calls' = <<>>
        /\ result' = filter_by_metadata(tech, year, tag)
        /\ UNCHANGED <<articles_manifest, tech_index_data, index, served>>

Technologies == {"ai", "Python", "OPENAI", "rust"}

AnalyzeTechStack ==
    \E technology \in Technologies :
        /\ op = NoOp
        /\ op' = [fn |-> "analyze_tech_stack", technology |-> technology]
        /\ calls' = <<>>
        /\ result' = analyze_tech_stack(technology)
        /\ tech_index_data' = after_sort(tech_index_data, technology)
        /\ UNCHANGED <<articles_manifest, index, served>>

FindContentGaps ==
    /\ op = NoOp
    /\ op' = [fn |-> "find_content_gaps"]
    /\ calls' = <<>>
    /\ result' = find_content_gaps
    /\ UNCHANGED <<articles_manifest, tech_index_data, index, served>>

TitleArgs == {"python", "NOTES 3", "s 1", "rust", ""}

GetFullArticle ==
    \E article_title \in TitleArgs :
        /\ op = NoOp
        /\ op' = [fn |-> "get_full_article", article_title |-> article_title]
        /\ calls' = <<>>
        /\ result' = get_full_article(article_title)
        /\ UNCHANGED <<articles_manifest, tech_index_data, index, served>>

InitTools == Loaded(Catalogs(3), ToolIndexes)

NextTools == FilterByMetadata \/ AnalyzeTechStack \/ FindContentGaps \/ GetFullArticle

SpecTools == InitTools /\ [][NextTools]_vars

InitFilter == Loaded(Catalogs(MaxArticles), {<<>>})

NextFilter == FilterByMetadata

SpecFilter == InitFilter /\ [][NextFilter]_vars

InitTech == Loaded({<<>>}, DatedIndexes)

NextTech == AnalyzeTechStack

SpecTech == InitTech /\ [][NextTech]_vars

InitGaps == Loaded(Catalogs(2), CountedIndexes)

NextGaps == FindContentGaps

SpecGaps == InitGaps /\ [][NextGaps]_vars


\* ------------------------------------------ the external retrieval service

RECURSIVE Repeat(_, _)
Repeat(s, n) ==
    IF n = 0 THEN ""
    ELSE LET half == Repeat(s, n \div 2)
         IN  half \o half \o (IF n % 2 = 1 THEN s ELSE "")

\* NodeWithScore values: metadata a dict or None, score a float (in
\* hundredths) or None, text a string or not available.
ResultShapes ==
    <<[metadata |-> Val([title |-> "Python Tips"]), score |-> Val(85),
       text |-> Val("Use venv for every project")],
      [metadata |-> None, score |-> Val(7), text |-> Val(Repeat("lorem ", 60))],
      [metadata |-> Val([author |-> "me"]), score |-> None, text |-> Val("No score here")],
      [metadata |-> Val([title |-> "Notes"]), score |-> Val(100), text |-> None]>>

Results(kinds) == [i \in 1..Len(kinds) |-> ResultShapes[kinds[i]]]

\* What the service does during one call: the client cannot be built, the
\* retrieval fails, or it answers with a list of results.
BuildFails == [build |-> "raise", retrieve |-> "ok", error |-> "No API key provided", results |-> <<>>]

RetrieveFails == [build |-> "ok", retrieve |-> "raise", error |-> "429 quota exceeded", results |-> <<>>]

Answers(kinds) == [build |-> "ok", retrieve |-> "ok", error |-> "", results |-> Results(kinds)]

SearchServices ==
    {BuildFails, RetrieveFails}
        \cup {Answers(k) : k \in {<<>>} \cup Patterns(1..Len(ResultShapes), MaxResults)}

RouterServices ==
    {BuildFails, RetrieveFails, Answers(<<>>), Answers(<<1>>), Answers(<<1, 3>>)}

\* The calls search_articles makes: the client is built when there is none,
\* then the retrieval runs on it.
search_calls(query, top_k, service) ==
    (IF index = "None" THEN <<[fn |-> "get_llamacloud_index"]>> ELSE <<>>)
    \o (IF get_index(service) = "None"
        THEN <<>>
        ELSE <<[fn |-> "retrieve", query |-> query, top_k |-> top_k]>>)

SearchQueries == {"python", "patent filing"}

TopKs == {3, 5}

SearchArticles ==
    \E query \in SearchQueries, top_k \in TopKs, service \in SearchServices :
        /\ op = NoOp
        /\ Len(service.results) <= top_k
        /\ op' = [fn |-> "search_articles", query |-> query, top_k |-> top_k,
                  service |-> service]
        /\ calls' = search_calls(query, top_k, service)
        /\ result' = search_articles(query, top_k, service)
        /\ index' = get_index(service)
        /\ UNCHANGED <<articles_manifest, tech_index_data, served>>

\* The caller has the result; the process waits for the next call.
Return ==
    /\ op # NoOp
    /\ op' = NoOp
    /\ calls' = <<>>
    /\ result' = [kind |-> "none"]
    /\ UNCHANGED <<articles_manifest, tech_index_data, index, served>>

InitSearch == Loaded({<<>>}, {<<>>})

NextSearch == SearchArticles \/ Return

SpecSearch == InitSearch /\ [][NextSearch]_vars

\* ------------------------------------------------------ runs of the handlers

\* Queries: empty, one word, or two words in either order.
Vocabulary ==
    <<"Gap", "strategy", "Python", "Docker", "OpenAI", "tech", "History", "article", "trend",
      "Claude", "explain", "focus", "React", "next">>

Words == {Vocabulary[i] : i \in 1..Min(NumWords, Len(Vocabulary))}

Queries == {""} \cup Words \cup {a \o " " \o b : a, b \in Words}

RouterCatalogs == {Catalog(<<1, 2, 4>>, 3), Catalog(<<3, 1>>, 2)}

RouterIndexes == ToolIndexes

\* A handler called search_articles, which fetched the client.
index_after(called, service) ==
    IF \E i \in 1..Len(called) : called[i].fn = "search_articles"
    THEN get_index(service)
    ELSE index

\* The tech index after the calls a handler made, one after the other.
RECURSIVE data_after(_, _)
data_after(data, called) ==
    IF called = <<>> THEN data
    ELSE data_after(IF Head(called).fn = "analyze_tech_stack"
                    THEN after_sort(data, Head(called).technology)
                    ELSE data,
                    Tail(called))

Run(fn, query, service, stop) ==
    /\ op = NoOp
    /\ LET done == stop
       IN  /\ op' = [fn |-> fn, query |-> query, service |-> service, branch |-> done.branch]
           /\ calls' = done.calls
           /\ result' = done.result
           /\ index' = index_after(done.calls, service)
           /\ tech_index_data' = data_after(tech_index_data, done.calls)
    /\ UNCHANGED <<articles_manifest, served>>

Discover ==
    \E query \in Queries, service \in RouterServices :
        Run("discover_articles", query, service, discover_articles(query, service))

ExploreTech ==
    \E query \in Queries, service \in RouterServices :
        Run("explore_tech", query, service, explore_tech(query, service))

AnalyzeContent ==
    \E query \in Queries, service \in RouterServices :
        Run("analyze_content", query, service, analyze_content(query, service))

InitRouter == Loaded(RouterCatalogs, RouterIndexes)

NextRouter == Discover \/ ExploreTech \/ AnalyzeContent \/ Return

SpecRouter == InitRouter /\ [][NextRouter]_vars

\* ------------------------------------------- catalogs with long contents

\* Article records whose content is exactly at the limit of get_full_article,
\* one character over it, absent, and short.
ContentAtLimit == Repeat("0123456789", 200)

ContentOverLimit == ContentAtLimit \o "X"

FullShapes ==
    <<[title |-> "Python Tips", date |-> Val("2024-01-15"), year |-> Val(2024),
       tags |-> <<"Programming", "AI">>, tech_stack |-> <<"Python", "Docker">>,
       word_count |-> 1200, content |-> ContentAtLimit],
      [title |-> "PYTHON tricks", content |-> ContentOverLimit],
      [title |-> "React Hooks", date |-> None, tags |-> <<"Frontend">>],
      [title |-> "Notes on python", year |-> Val(2023), word_count |-> 1, content |-> "short"]>>

FullCatalogs ==
    {[i \in 1..n |-> Numbered(FullShapes[Cyclic(p, n)[i]], i)] :
        p \in Patterns(1..Len(FullShapes), MaxPattern), n \in 0..MaxArticles}

InitArticle == Loaded(FullCatalogs, {<<>>})

NextArticle == GetFullArticle

SpecArticle == InitArticle /\ [][NextArticle]_vars

\* ------------------------------------- every query function of one process

\* Tech indexes, one of them with a list that is not in date order.
AllIndexes ==
    RouterIndexes
    \cup {<<[tech |-> "AI", articles |-> Summaries(<<1, 2>>, 0)],
            [tech |-> "Python", articles |-> Summaries(<<2, 1>>, 20)],
            [tech |-> "OpenAI", articles |-> Summaries(<<2, 3>>, 10)]>>}

InitAll == Loaded(RouterCatalogs, AllIndexes)

NextAll ==
    \/ FilterByMetadata
    \/ AnalyzeTechStack
    \/ FindContentGaps
    \/ GetFullArticle
    \/ SearchArticles
    \/ Discover
    \/ ExploreTech
    \/ AnalyzeContent
    \/ Return

SpecAll == InitAll /\ [][NextAll]_vars

\* ------------------------------------------------------------ simple_api.py

DiscoveryPrefix ==
    "You are a discovery agent. Provide brief summaries and teasers about articles. Query: "

TechExplorerPrefix ==
    "You are a tech explorer. Analyze technical expertise and technology patterns. Query: "

AnalyticsPrefix ==
    "You are an analytics agent. Provide detailed content analysis and strategy recommendations. Query: "

\* A request body without mode that kept no default.
QueryRequest_NoDefault(body) ==
    [query |-> body.query,
     mode  |-> IF "mode" \in DOMAIN body THEN body.mode ELSE ""]

\* class QueryRequest: the parsed body, mode defaulting to "discovery".
QueryRequest(body) ==
    [query |-> body.query,
     mode  |-> IF "mode" \in DOMAIN body THEN body.mode ELSE "discovery"]

\* The if/elif/else that turns the request into the prompt.
chat_prompt(request) ==
    IF request.mode = "discovery" THEN DiscoveryPrefix \o request.query
    ELSE IF request.mode = "tech-explorer" THEN TechExplorerPrefix \o request.query
    ELSE IF request.mode = "analytics" THEN AnalyticsPrefix \o request.query
    ELSE request.query

\* The calls chat makes on the index: as_query_engine(), then query(prompt)
\* unless building the engine raised.
chat_calls(request, engine) ==
    IF engine = "engine_error"
    THEN <<[fn |-> "as_query_engine"]>>
    ELSE <<[fn |-> "as_query_engine"], [fn |-> "query", prompt |-> chat_prompt(request)]>>

\* The response body when the try block covers the query only: an exception
\* of as_query_engine() leaves the handler.
chat_response_QueryOnly(request, engine, answer) ==
    IF engine = "ok"
    THEN [response |-> answer, mode |-> request.mode, status |-> "success"]
    ELSE IF engine = "query_error"
    THEN [error |-> engine, status |-> "error"]
    ELSE Raise(engine)

\* The response body: success with the engine's answer, or the caught exception.
chat_response(request, engine, answer) ==
    IF engine = "ok"
    THEN [response |-> answer, mode |-> request.mode, status |-> "success"]
    ELSE [error |-> engine, status |-> "error"]

\* Request bodies: a query, and a mode that is absent, one of the three
\* literals, or some other string.
ChatQueries == {"", "python", "What is new", "gap"}

ChatModes == {"discovery", "tech-explorer", "analytics", "Discovery", "", "admin"}

ChatBodies ==
    {[query |-> q] : q \in ChatQueries}
        \cup {[query |-> q, mode |-> m] : q \in ChatQueries, m \in ChatModes}

EngineOutcomes == {"ok", "engine_error", "query_error"}

EngineAnswers == {"answer A", "answer B"}

\* POST /chat
chat ==
    \E body \in ChatBodies, engine \in EngineOutcomes, answer \in EngineAnswers :
        /\ served < MaxServed
        /\ op' = [fn |-> "chat", body |-> body, engine |-> engine, answer |-> answer]
        /\ calls' = chat_calls(QueryRequest(body), engine)
        /\ result' = chat_response(QueryRequest(body), engine, answer)
        /\ served' = served + 1
        /\ UNCHANGED <<articles_manifest, tech_index_data, index>>

\* GET /health
health ==
    /\ served < MaxServed
    /\ op' = [fn |-> "health"]
    /\ calls' = <<>>
    /\ result' = [status |-> "healthy"]
    /\ served' = served + 1
    /\ UNCHANGED <<articles_manifest, tech_index_data, index>>

InitChat ==
    /\ articles_manifest = <<>>
    /\ tech_index_data = <<>>
    /\ index = "client"
    /\ op = NoOp
    /\ calls = <<>>
    /\ result = [status |-> "started"]
    /\ served = 0

NextChat == chat \/ health

SpecChat == InitChat /\ [][NextChat]_vars

\* ------------------------------------------------- the import of the modules

\* A process that has imported neither module yet.
InitLazy ==
    /\ articles_manifest = <<>>
    /\ tech_index_data = <<>>
    /\ index = "unbound"
    /\ op = [fn |-> "start"]
    /\ calls = <<>>
    /\ result = [kind |-> "none"]
    /\ served = 0

\* import app.tools: load_data() fills the two globals and index is bound
\* to None; nothing of the service is touched, whatever its condition.
ImportTools ==
    \E service \in {BuildFails, RetrieveFails, Answers(<<1>>)} :
        /\ op.fn = "start"
        /\ op' = [fn |-> "import", module |-> "app.tools", service |-> service]
        /\ articles_manifest' \in RouterCatalogs
        /\ tech_index_data' \in RouterIndexes
        /\ index' = "None"
        /\ calls' = <<>>
        /\ result' = [kind |-> "none"]
        /\ UNCHANGED served

\* import simple_api: the module body calls LlamaCloudIndex(...) with the
\* key read from the environment; when the construction raises, so does the
\* import.
ImportSimpleApi ==
    \E service \in {BuildFails, RetrieveFails, Answers(<<1>>)} :
        /\ op.fn = "start"
        /\ op' = [fn |-> "import", module |-> "simple_api", service |-> service]
        /\ calls' = <<[fn |-> "LlamaCloudIndex"]>>
        /\ index' = IF service.build = "ok" THEN "client" ELSE "unbound"
        /\ result' = IF service.build = "ok" THEN [kind |-> "none"] ELSE Raise(service.error)
        /\ UNCHANGED <<articles_manifest, tech_index_data, served>>

\* app.tools is imported, or a search has returned: the next call may come.
\* (What simple_api serves once imported is SpecChat.)
LazyReturn ==
    /\ op.fn # "start"
    /\ op.fn = "import" => op.module = "app.tools"
    /\ Return

NextLazy == ImportTools \/ ImportSimpleApi \/ SearchArticles \/ LazyReturn

SpecLazy == InitLazy /\ [][NextLazy]_vars

\* ------------------------------------------------------------------ claims

ModeLiterals == {"discovery", "tech-explorer", "analytics"}

ForwardedPrompts == {calls[i].prompt : i \in {j \in 1..Len(calls) : calls[j].fn = "query"}}

ChatWithoutLiteralMode ==
    /\ op.fn = "chat"
    /\ ("mode" \notin DOMAIN op.body \/ op.body.mode \notin ModeLiterals)

\* C1 (as stated): a /chat request whose mode is missing or is not one of the
\* three literals forwards the prompt a "discovery" request with the same
\* query forwards.
C1_MissingOrMalformedIsDiscovery ==
    ChatWithoutLiteralMode =>
        ForwardedPrompts \subseteq {DiscoveryPrefix \o op.body.query}

\* C1 (amended): a missing mode forwards the discovery prompt and answers
\* with mode "discovery"; a mode that is a string other than the three
\* literals forwards the bare query, with no prefix, and is echoed back.
C1_MissingIsDiscoveryMalformedIsBare ==
    ChatWithoutLiteralMode =>
        /\ ForwardedPrompts \subseteq
              {IF "mode" \in DOMAIN op.body
               THEN op.body.query
               ELSE DiscoveryPrefix \o op.body.query}
        /\ result.status = "success" =>
              /\ ForwardedPrompts # {}
              /\ result.mode =
                    IF "mode" \in DOMAIN op.body THEN op.body.mode ELSE "discovery"

C1_Witness ==
    /\ op.fn = "chat"
    /\ "mode" \in DOMAIN op.body
    /\ op.body.mode = "Discovery"
    /\ op.body.query = "python"
    /\ ForwardedPrompts = {"python"}
    /\ result.status = "success"

\* The text handed back holds this piece of the joined list.
HasLine(l) == result.kind = "text" /\ \E i \in 1..Len(result.output) : result.output[i] = l

\* The pieces that start with the given prefix, in order.
LinesWith(prefix) ==
    IF result.kind = "text"
    THEN SelectSeq(result.output, LAMBDA l : Prefix(l, Len(prefix)) = prefix)
    ELSE <<>>

\* A keyword of the group occurs in the lower-cased query.
Hit(words) == \E i \in 1..Len(words) : Contains(words[i], lower(op.query))

ExplorerHeadings ==
    [generic |-> {"**Primary Focus - AI Technologies:**"},
     named |-> {"**Python Expertise:**", "**Ai Expertise:**", "**Claude Expertise:**",
                "**Openai Expertise:**", "**Llamaindex Expertise:**"},
     temporal |-> {"**Technology Evolution Timeline:**"},
     search |-> {"**Relevant Technical Content:**"}]

AnalyticsHeadings ==
    [gap |-> {"**Content Gap Analysis:**"},
     article |-> {"**Article Search Results:**"},
     pattern |-> {"**Writing Patterns Analysis:**"},
     focus |-> {"**Technology Focus Analysis:**"},
     strategy |-> {"**Content Strategy Recommendations:**"},
     overview |-> {"**Comprehensive Content Overview:**"}]

\* The returned text carries a heading of the given branch and of no other.
OnlyHeadingsOf(headings, branch) ==
    result.kind = "text" =>
        /\ \E h \in headings[branch] : HasLine(h)
        /\ \A b \in DOMAIN headings \ {branch} : \A h \in headings[b] : ~HasLine(h)

\* C2: for a non-empty query the Tech-Explorer and the Analytics handler
\* take exactly one branch, the first group in priority order with a keyword
\* in the lower-cased query, and the default when no group has one; an
\* Analytics query with "gap" and "strategy" takes the gap branch only.
C2_FirstMatchingGroupWins ==
    /\ (op.fn = "explore_tech" /\ op.query # "") =>
          /\ op.branch =
                (IF Hit(<<"technology", "tech", "stack", "expertise">>) THEN "generic"
                 ELSE IF Hit(<<"python", "ai", "claude", "openai", "llamaindex">>) THEN "named"
                 ELSE IF Hit(<<"evolution", "timeline", "history", "over time">>) THEN "temporal"
                 ELSE "search")
          /\ OnlyHeadingsOf(ExplorerHeadings, op.branch)
    /\ (op.fn = "analyze_content" /\ op.query # "") =>
          /\ op.branch =
                (IF Hit(<<"gap", "opportunity", "missing", "underserved">>) THEN "gap"
                 ELSE IF Hit(<<"article", "content", "full", "detail">>) THEN "article"
                 ELSE IF Hit(<<"pattern", "performance", "trend", "frequency">>) THEN "pattern"
                 ELSE IF Hit(<<"technology", "tech", "focus", "expertise">>) THEN "focus"
                 ELSE IF Hit(<<"strategy", "next", "recommend", "suggest", "improve">>)
                 THEN "strategy"
                 ELSE "overview")
          /\ OnlyHeadingsOf(AnalyticsHeadings, op.branch)
          /\ (Hit(<<"gap">>) /\ Hit(<<"strategy">>)) =>
                /\ op.branch = "gap"
                /\ calls = <<CallGaps>>

C2_Witness ==
    /\ op.fn = "analyze_content"
    /\ op.query = "strategy Gap"
    /\ op.branch = "gap"
    /\ HasLine("**Content Gap Analysis:**")
    /\ ~HasLine("**Content Strategy Recommendations:**")

\* The keywords of the fixed list that occur in the lower-cased query, in
\* the order of the list.
C3_Mentioned ==
    SelectSeq(<<"python", "ai", "claude", "openai", "llamaindex", "react", "docker">>,
              LAMBDA k : Contains(k, lower(op.query)))

\* C3: for a non-empty query the Discovery handler first calls the semantic
\* search and then technology-analysis for exactly the first 2 (or all, when
\* fewer) keywords of the fixed list that occur in the query, in list order.
C3_SearchThenFirstTwoKeywords ==
    (op.fn = "discover_articles" /\ op.query # "") =>
        calls = <<CallSearch(op.query, 3)>>
                \o [i \in 1..Min(2, Len(C3_Mentioned)) |-> CallAnalyze(C3_Mentioned[i])]

\* The technologies of the index with fewer than 3 articles (by position).
C4_Low == {i \in 1..Len(tech_index_data) : Len(tech_index_data[i].articles) < 3}

C4_Flagged ==
    {i \in 1..Len(tech_index_data) :
        HasLine("  * " \o tech_index_data[i].tech \o ": "
                \o ToStr(Len(tech_index_data[i].articles)) \o " article(s)")}

C4_Report == op.fn = "find_content_gaps" /\ result.kind = "text"

C5_Satisfies(article) ==
    /\ TruthyStr(op.tech) =>
          \E t \in {Get(article, "tech_stack", <<>>)[i] :
                       i \in 1..Len(Get(article, "tech_stack", <<>>))} :
              Contains(lower(op.tech.v), lower(t))
    /\ TruthyInt(op.year) => ("year" \in DOMAIN article /\ article.year = op.year)
    /\ TruthyStr(op.tag) =>
          \E t \in {Get(article, "tags", <<>>)[i] : i \in 1..Len(Get(article, "tags", <<>>))} :
              Contains(lower(op.tag.v), lower(t))

C5_Matching == {i \in 1..Len(articles_manifest) : C5_Satisfies(articles_manifest[i])}

\* C5: filterByMetadata reports the number of articles that satisfy every
\* supplied filter, which is at most the catalog size, displays only such
\* articles and at most 10 of them, states exactly (matches - 10) more when
\* more than 10 match, and returns the no-match message when none does.
C5_FilterReportsOnlyMatches ==
    op.fn = "filter_by_metadata" =>
        LET n == Cardinality(C5_Matching)
            shown == LinesWith("* ")
        IN  /\ result.kind = "text"
            /\ n <= Len(articles_manifest)
            /\ (n = 0) <=> (result.text = "No articles found matching the criteria.")
            /\ n > 0 =>
                  /\ result.output[1] = "Found " \o ToStr(n) \o " matching articles:\n"
                  /\ Len(shown) = Min(n, 10)
                  /\ \A k \in 1..Len(shown) :
                        \E i \in C5_Matching : shown[k] = "* " \o articles_manifest[i].title
                  /\ LinesWith("... and ") =
                        (IF n > 10 THEN <<"... and " \o ToStr(n - 10) \o " more">> ELSE <<>>)

C5_Witness ==
    /\ op.fn = "filter_by_metadata"
    /\ TruthyStr(op.tech) /\ TruthyInt(op.year) /\ TruthyStr(op.tag)
    /\ Cardinality(C5_Matching) = 12
    /\ Len(LinesWith("* ")) = 10
    /\ HasLine("... and 2 more")

\* The summaries under the keys that contain the argument, case-insensitively.
MatchedSummaries ==
    UNION {{tech_index_data[k].articles[i] : i \in 1..Len(tech_index_data[k].articles)} :
              k \in {j \in 1..Len(tech_index_data) :
                       Contains(lower(op.technology), lower(tech_index_data[j].tech))}}

\* A summary's date string, the empty string when it has none.
DateOf(r) == IF "date" \in DOMAIN r /\ ~r.date.none THEN r.date.v ELSE ""

MatchedDates == {DateOf(r) : r \in MatchedSummaries} \ {""}

LexMin(D) == CHOOSE d \in D : \A e \in D : d = e \/ StrLess(d, e)

LexMax(D) == CHOOSE d \in D : \A e \in D : d = e \/ StrLess(e, d)

C6_Report ==
    /\ op.fn = "analyze_tech_stack"
    /\ result.kind = "text"
    /\ MatchedDates # {}

C7_Report == op.fn = "analyze_tech_stack" /\ result.kind = "text" /\ MatchedSummaries # {}

\* The summaries the report lists, in the order it lists them.
C7_Listed ==
    LET shown == LinesWith("* ")
    IN  [k \in 1..Len(shown) |-> CHOOSE r \in MatchedSummaries : "* " \o r.title = shown[k]]

\* The report counts every matched summary and lists 5 of them (or all, when
\* fewer), each one matched, and none left out has a later date than a
\* listed one.
C7_ListsFive ==
    LET shown == LinesWith("* ")
        matched == MatchedSummaries
        listed == C7_Listed
    IN  /\ HasLine("Total articles: " \o ToStr(Cardinality(matched)))
        /\ Len(shown) = Min(5, Cardinality(matched))
        /\ \A k \in 1..Len(shown) : \E r \in matched : "* " \o r.title = shown[k]
        /\ \A r \in matched :
              (\A k \in 1..Len(listed) : listed[k] # r) =>
                  \A k \in 1..Len(listed) : ~StrLess(DateOf(listed[k]), DateOf(r))

MetadataFunctions ==
    {"filter_by_metadata", "analyze_tech_stack", "find_content_gaps", "get_full_article"}

\* C8: each of the four metadata functions returns a text for every catalog
\* and tech index of the data model and every argument; none raises.
C8_MetadataFunctionsAreTotal ==
    op.fn \in MetadataFunctions => (result.kind = "text" /\ result.text # "")

\* C9: searchArticles never lets an error through: a failure of the service
\* or a malformed result gives the fallback text, no results give the fixed
\* message, and otherwise there is one entry per result, numbered from 1.
C9_SearchNeverPropagates ==
    op.fn = "search_articles" =>
        /\ result.kind = "text"
        /\ (op.service.retrieve = "ok" /\ calls # <<>> /\ calls[Len(calls)].fn = "retrieve"
            /\ op.service.results = <<>>) => result.text = "No relevant articles found."
        /\ LinesWith("Result ") \in
              {<<>>, [i \in 1..Len(op.service.results) |-> "Result " \o ToStr(i) \o ":"]}

Handlers == {"discover_articles", "explore_tech", "analyze_content"}

FooterOf(fn) ==
    IF fn = "discover_articles" THEN DiscoveryNote
    ELSE IF fn = "explore_tech" THEN TechnicalProfile
    ELSE PrivateMode

\* C10: for every non-empty query and every outcome of the external search,
\* each handler returns a non-empty text that contains its fixed footer.
C10_HandlersReturnFooter ==
    (op.fn \in Handlers /\ op.query # "") =>
        /\ result.kind = "text"
        /\ result.text # ""
        /\ Contains(FooterOf(op.fn), result.text)

\* C11: every exception raised while a /chat request is served, by building
\* the query engine or by querying it, becomes a body with status "error"; a
\* request without one returns response, mode and status "success"; whatever
\* requests came before, failed or not, the body depends on this request
\* alone, and the process is left as it was and takes the next request.
C11_ExceptionsBecomeErrorBodies ==
    op.fn = "chat" =>
        /\ op.engine # "ok" =>
              /\ DOMAIN result = {"error", "status"}
              /\ result.status = "error"
              /\ result.error = op.engine
        /\ op.engine = "ok" =>
              /\ DOMAIN result = {"response", "mode", "status"}
              /\ result.status = "success"
              /\ result.response = op.answer
              /\ result.mode = (IF "mode" \in DOMAIN op.body THEN op.body.mode ELSE "discovery")
        /\ index = "client"
        /\ served < MaxServed => ENABLED chat

C11_Witness ==
    /\ op.fn = "chat"
    /\ op.engine = "engine_error"
    /\ calls = <<[fn |-> "as_query_engine"]>>
    /\ result = [error |-> "engine_error", status |-> "error"]
    /\ served = 2
    /\ ENABLED chat

\* C12: the catalog and the tech index are loaded once, and no call of
\* filterByMetadata, analyzeTechStack, findContentGaps, getFullArticle,
\* searchArticles or of a mode handler changes them: every step leaves
\* articles_manifest and tech_index_data, the order of each technology's
\* list included, as they were loaded.
C12_QueriesAreReadOnly ==
    [][/\ articles_manifest' = articles_manifest
       /\ tech_index_data' = tech_index_data]_vars

\* analyze_tech_stack reported "ai" with S2 first, and the list of the key
\* "AI" still starts with S1.
C12_Witness ==
    /\ op.fn = "analyze_tech_stack"
    /\ op.technology = "ai"
    /\ result.kind = "text"
    /\ LinesWith("* ") = <<"* S2", "* S11", "* S1", "* S12">>
    /\ tech_index_data[1].tech = "AI"
    /\ tech_index_data[1].articles = Summaries(<<1, 2>>, 0)

\* The calls of the step that construct a client, and those that retrieve.
C13_Constructions(called) ==
    {i \in 1..Len(called) : called[i].fn \in {"get_llamacloud_index", "LlamaCloudIndex"}}

C13_Retrievals(called) == {i \in 1..Len(called) : called[i].fn = "retrieve"}

\* C13: importing a module constructs no client and cannot fail for want of
\* a credential; a search constructs the client when there is none, once,
\* and retrieves at most once; when the construction or the retrieval fails
\* the search returns the fallback text; a client that exists is reused.
C13_ClientIsLazy ==
    [][/\ op'.fn = "import" =>
             /\ C13_Constructions(calls') = {}
             /\ index' # "client"
             /\ result'.kind # "raise"
       /\ op'.fn = "search_articles" =>
             /\ index = "None" => C13_Constructions(calls') = {1}
             /\ index = "client" => (C13_Constructions(calls') = {} /\ index' = "client")
             /\ Cardinality(C13_Retrievals(calls')) <= 1
             /\ (op'.service.build = "ok" /\ index = "None") => index' = "client"
             /\ ((index = "None" /\ op'.service.build # "ok") \/ op'.service.retrieve # "ok") =>
                   /\ result'.kind = "text"
                   /\ Prefix(result'.text, 31) = "LlamaCloud search unavailable ("]_vars

\* The positions of the articles whose title contains the title query,
\* case-insensitively.
C14_Hits ==
    {i \in 1..Len(articles_manifest) :
        Contains(lower(op.article_title), lower(articles_manifest[i].title))}

\* C14: getFullArticle has three outcomes: no title contains the query
\* (case-insensitively): the not-found message; more than one does: the list
\* of the first 5 matching titles; exactly one does: the article, with its
\* content verbatim and no marker when it has at most 2000 characters, and
\* its first 2000 characters followed by the truncation marker otherwise.
C14_ThreeOutcomes ==
    op.fn = "get_full_article" =>
        LET hits == C14_Hits
            n == Cardinality(hits)
            order == SelectSeq([i \in 1..Len(articles_manifest) |-> i], LAMBDA i : i \in hits)
        IN  /\ result.kind = "text"
            /\ n = 0 =>
                  result.text = "No article found with title containing '"
                                \o op.article_title \o "'"
            /\ n > 1 =>
                  result.text =
                      "Multiple matches found. Please be more specific:\n"
                      \o JoinWith("\n", [k \in 1..Min(5, n) |->
                                            "  * " \o articles_manifest[order[k]].title])
            /\ n = 1 =>
                  LET article == articles_manifest[order[1]]
                      content == IF "content" \in DOMAIN article THEN article.content ELSE ""
                  IN  /\ result.output[1] = "Title: " \o article.title
                      /\ result.output[6] = "\n--- Content ---\n"
                      /\ Len(content) <= 2000 =>
                            /\ Len(result.output) = 7
                            /\ result.output[7] = content
                      /\ Len(content) > 2000 =>
                            /\ Len(result.output) = 8
                            /\ Len(result.output[7]) = 2000
                            /\ result.output[7] = SubSeq(content, 1, 2000)
                            /\ result.output[8] = "\n... (content truncated)"

C14_Witness ==
    /\ op.fn = "get_full_article"
    /\ op.article_title = "python"
    /\ Len(articles_manifest) = 3
    /\ C14_Hits = {2}
    /\ Len(articles_manifest[2].content) = 2001
    /\ Len(result.output[7]) = 2000
    /\ result.output[8] = "\n... (content truncated)"

=============================================================================
